---- MODULE Spec2Model ----
(***************************************************************************)
(* State-machine model of toolchest's function combinators                 *)
(* (src/src/functions): CircuitBreaker, Debounced and RateLimiter.         *)
(* Every mutex of the source is a variable holding its owner, every        *)
(* blocking acquisition is a guard, and Instant::now() is the shared       *)
(* discrete clock `now`, advanced by Tick between any two steps.           *)
(***************************************************************************)
EXTENDS Integers, Sequences, FiniteSets, TLC

\* ---------------------------------------------------------------- bounds
MaxTime == 3            \* the clock stops advancing here
MaxThreshold == 2       \* CircuitBreaker::new threshold is drawn from 1..MaxThreshold
MaxCooldown == 2        \* CircuitBreaker::new cooldown is drawn from 0..MaxCooldown
MaxCalls == 4           \* call()s of the single caller of a CircuitBreaker
MaxConcCalls == 2       \* call()s in total of the concurrent callers
MaxProbeCalls == 3      \* call()s in total of the callers of a breaker that opens at once
MaxHistCalls == 2       \* the same, when the history of calls is kept
MaxDelay == 1           \* debounce delay is drawn from 0..MaxDelay
MaxDebCalls == 3        \* call()s made on a Debounced handle
MaxCapacity == 2        \* RateLimiter capacity is drawn from 0..MaxCapacity
MaxRate == 2            \* refill_per_second is drawn from 0..MaxRate
MaxAllow == 4           \* allow() calls made on a RateLimiter
TicksPerSec == 2        \* clock ticks in a second
MaxThrottleDelay == 2   \* throttle delay is drawn from 0..MaxThrottleDelay
MaxThrottleCalls == 3   \* call()s made on a Throttled
MaxMemoCalls == 4       \* calls made of a memoized closure
MaxAttempts == 4        \* retry attempts are drawn from 0..MaxAttempts
MaxFails == 5           \* op fails on its first 0..MaxFails invocations
MaxBaseDelay == 4       \* retry delays are drawn from 0..MaxBaseDelay
DurationMax == 7        \* Duration::MAX, at which saturating_mul stops
MaxDur == 2             \* with_timeout's dur is drawn from 0..MaxDur
MaxTimeoutCalls == 2    \* calls of with_timeout made one after another

Threads == {"t1", "t2"}
Callers == {"c1", "c2"}         \* threads sharing a Debounced handle
Values == {"v1", "v2"}          \* what op may return in Ok
Errors == {"e1", "e2"}          \* what op may return in Err
Free == "free"                  \* owner of an unlocked mutex
Args == {"a1", "a2"}            \* arguments of a memoized function

\* Option<T>
None == <<>>
Some(x) == <<x>>
IsSome(o) == o # None
Unwrap(o) == o[1]

\* Result<T, CircuitBreakerError<E>> as returned by call(); NoResult before
\* the first return.
NoResult == <<"none">>
Ok(v) == <<"Ok", v>>
ErrOpen == <<"Err", "Open">>
ErrOperationAsOpen(e) == <<"Err", "Open">>
ErrOperation(e) == <<"Err", "OperationError", e>>
\* What the supplied closure returns when it is invoked.
OpOk(v) == <<"Ok", v>>
OpErr(e) == <<"Err", e>>
OpOutcomes == {OpOk(v) : v \in Values} \cup {OpErr(e) : e \in Errors}
IsOk(o) == o[1] = "Ok"

VARIABLES
    now,            \* Instant::now()
    \* ---- CircuitBreaker fields
    state, failures, threshold, open_until, cooldown,
    stateLock, failuresLock, untilLock,     \* owners of the three mutexes
    \* ---- per calling thread
    pc,             \* position inside call()
    op,             \* the closure's outcome, fixed when call() begins
    invoked,        \* times op has been invoked in the thread's current call
    res,            \* what the thread's last call() returned
    \* ---- observations (never read by the modelled code)
    admit,          \* breaker as maybe_transition found it
    recNow,         \* clock when the thread's last call recorded its outcome
    ncalls,         \* call()s begun
    allErr,         \* every call() begun so far had a failing op
    callers,        \* the threads that may call
    callBound,      \* how many call()s they make in total
    recording,      \* whether the history of calls is kept
    ev,             \* logical time of begin/return events
    begun,          \* per thread: ev when its current call began
    hist,           \* completed calls, in order of return
    streak,         \* invocations of op that failed since the last one that succeeded
    seen,           \* per thread: the state its latest call() matched on
    \* ---- Debounced fields
    delay, deadline, started, shutdown, worker,
    dlLock,         \* owner of the deadline mutex
    notified,       \* the condvar has woken the waiting worker
    \* ---- Debounced threads
    cpc,            \* per calling thread: position inside Debounced::call
    wpc,            \* the worker thread's position in its loop
    dpc,            \* position of Drop::drop
    \* ---- observations (never read by the modelled code)
    execs,          \* times the wrapped function has been started
    dcalls,         \* call()s made
    bursts,         \* bursts begun
    lastCallAt,     \* clock of the latest call()
    spaced,         \* every call() so far came more than delay after the one before
    replaced,       \* call()s that found a deadline still set
    mergedBursts,   \* of those, the ones that began a new burst
    takenCallAt,    \* clock of the latest call() when the worker last took a deadline
    execAfterDrop,  \* the function was started after drop had begun
    execAfterJoin,  \* the function was started after drop had returned
    dcallers,       \* the threads that may call the handle
    spawned,        \* the number of worker threads spawned so far
    unserved,       \* a call() has been made and the function has not started since
    \* ---- RateLimiter fields; tokens counts TicksPerSec-ths of a token
    capacity, tokens, refill_per_sec, last_refill,
    tokensLock, lastLock,       \* owners of the two mutexes
    \* ---- per thread calling allow()
    rpc,            \* position inside allow()
    elapsed,        \* `last.elapsed()` as refill read it, in ticks
    \* ---- observations (never read by the modelled code)
    allowed,        \* what the allow() calls returned, in the order they decided
    drain,          \* the calls made at one instant after the bucket was emptied
    rcallers,       \* the threads that may call allow()
    \* ---- Throttled fields
    throttle_delay, last_call,
    lastCallLock,   \* owner of the last_call mutex
    \* ---- per thread calling Throttled::call
    tpc,            \* position inside call()
    \* ---- observations (never read by the modelled code)
    made,           \* clock at which the thread's current call() read last_call
    thist,          \* completed call()s: when made, when returned, whether executed
    execAt,         \* clocks at which the wrapped function was started
    tcallers,       \* the threads that may call the Throttled
    \* ---- memoize: what the returned closure captures
    cache,
    cacheLock,      \* owner of the cache mutex
    \* ---- per thread calling the memoized closure
    mpc,            \* position inside the closure
    marg,           \* `arg`
    mval,           \* `res`
    \* ---- observations (never read by the modelled code)
    mafter,         \* the thread's current call began after a call for arg returned
    mfound,         \* what the thread's current call found in the cache for arg
    finvoked,       \* per argument, times func has been invoked
    firstVal,       \* per argument, the first value inserted into the cache
    mhist,          \* completed calls, in order of return
    mcallers,       \* the threads that may call the closure
    \* ---- retry and retry_with_backoff: parameters and locals
    attempts,       \* `attempts`, counted down
    retry_delay,    \* retry's `delay: Option<Duration>`
    base_delay,     \* retry_with_backoff's `base_delay`
    cur_delay,      \* retry_with_backoff's local `delay`
    lpc,            \* position in the loop
    outcome,        \* what the function returned; NoResult while it runs
    \* ---- the supplied op: it fails on its first `fails` invocations
    fails,
    tries,          \* times op has been invoked
    \* ---- observations (never read by the modelled code)
    given,          \* `attempts` as passed in
    sleeps,         \* the durations passed to thread::sleep, in order
    variant,        \* which function was called: "retry", "backoff" or "none"
    \* ---- with_timeout
    dur,            \* `dur`
    chan,           \* the channel: the value sent and not yet received
    disconnected,   \* tx was dropped with nothing sent
    hungUp,         \* rx was dropped
    upc,            \* position of the caller of with_timeout
    wkpc,           \* position of the spawned thread
    ret,            \* what with_timeout returned, as a result tuple
    \* ---- observations (never read by the modelled code)
    waitFrom,       \* clock at which recv_timeout was entered
    doneAt,         \* clock at which f completed
    retAt,          \* clock at which with_timeout returned
    tcall,          \* which call of with_timeout this is: the first, the second..
    stale,          \* earlier calls whose spawned thread is still running f
    chanFrom,       \* the call whose thread sent the value in the channel, or 0
    gotFrom,        \* the call whose thread sent the value returned, or 0
    lateDone        \* calls whose thread completed f after the caller had returned

cbFields == <<state, failures, threshold, open_until, cooldown>>
cbLocks == <<stateLock, failuresLock, untilLock>>
cbLocal == <<pc, op, invoked, res>>
cbObs == <<admit, recNow, ncalls, allErr, callers, callBound, recording, ev, begun, hist>>
cbSeen == <<streak, seen>>
cbVars == <<cbFields, cbLocks, cbLocal, cbObs, cbSeen>>

debFields == <<delay, deadline, started, shutdown, worker, dlLock, notified>>
debThreads == <<cpc, wpc, dpc>>
debObs == <<execs, dcalls, bursts, lastCallAt, spaced, replaced, mergedBursts,
            takenCallAt, execAfterDrop, execAfterJoin, dcallers, spawned, unserved>>
debVars == <<debFields, debThreads, debObs>>

rlFields == <<capacity, tokens, refill_per_sec, last_refill, tokensLock, lastLock>>
rlVars == <<rlFields, rpc, elapsed, allowed, drain, rcallers>>

thFields == <<throttle_delay, last_call, lastCallLock>>
thVars == <<thFields, tpc, made, thist, execAt, tcallers>>

\* the function wrappers other than the three above
memVars == <<cache, cacheLock, mpc, marg, mval, mafter, mfound, finvoked,
             firstVal, mhist, mcallers>>

retVars == <<attempts, retry_delay, base_delay, cur_delay, fails, given, tries,
             sleeps, outcome, lpc, variant>>

toCalls == <<tcall, stale, chanFrom, gotFrom, lateDone>>
toVars == <<dur, chan, disconnected, hungUp, upc, wkpc, ret, waitFrom, doneAt, retAt,
            toCalls>>

fnVars == <<thVars, memVars, retVars, toVars>>
othTh == <<cbVars, debVars, rlVars, memVars, retVars, toVars>>
othMem == <<cbVars, debVars, rlVars, thVars, retVars, toVars>>
othRet == <<cbVars, debVars, rlVars, thVars, memVars, toVars>>
othTo == <<cbVars, debVars, rlVars, thVars, memVars, retVars>>

vars == <<now, cbVars, debVars, rlVars, fnVars>>

\* ------------------------------------------------------------------ clock
Tick ==
    /\ now < MaxTime
    /\ now' = now + 1
    /\ UNCHANGED <<cbVars, debVars, rlVars, fnVars>>

\* --------------------------------------------------------- CircuitBreaker
\* CircuitBreaker::new
CircuitBreaker_new(T, cd) ==
    /\ state = "Closed"
    /\ failures = 0
    /\ threshold = T
    /\ open_until = None
    /\ cooldown = cd
    /\ stateLock = Free /\ failuresLock = Free /\ untilLock = Free
    /\ pc = [t \in Threads |-> "idle"]
    /\ op = [t \in Threads |-> OpOk("v1")]
    /\ invoked = [t \in Threads |-> 0]
    /\ res = [t \in Threads |-> NoResult]
    /\ admit = [t \in Threads |-> "none"]
    /\ recNow = [t \in Threads |-> 0]
    /\ ncalls = 0
    /\ allErr = TRUE
    /\ ev = 0
    /\ begun = [t \in Threads |-> 0]
    /\ hist = <<>>
    /\ streak = 0
    /\ seen = [t \in Threads |-> "none"]

\* `Instant::now() >= until` of maybe_transition
ElapsedStrict(until) == now > until
Elapsed(until) == now >= until

\* `*f >= self.threshold` of record_failure
TripsAbove(f) == f > threshold
Trips(f) == f >= threshold

\* `*self.failures.lock().unwrap() = 0` of record_success
CountKept(f) == f
CountReset(f) == 0

\* `if *state == HalfOpen { *state = Closed }` of record_success
AfterSuccessStuck(s) == s
AfterSuccess(s) == IF s = "HalfOpen" THEN "Closed" ELSE s

\* How maybe_transition finds the breaker (observation only).
Admission ==
    IF state # "Open" THEN "pass"
    ELSE IF open_until = None THEN "unset"
    ELSE IF now < Unwrap(open_until) THEN "cooling"
    ELSE "elapsed"

\* call() returns r on thread t
Return(t, r) ==
    /\ pc' = [pc EXCEPT ![t] = "idle"]
    /\ res' = [res EXCEPT ![t] = r]
    /\ ev' = IF recording THEN ev + 1 ELSE ev
    /\ hist' = IF recording
               THEN Append(hist, [thr |-> t, inv |-> begun[t], ret |-> ev,
                                  op |-> op[t], res |-> r])
               ELSE hist

\* A thread enters call(op). The bound on the calls keeps `failures` far
\* below u32::MAX, where `*f += 1` would overflow.
Call_Begin(t) ==
    /\ t \in callers
    /\ pc[t] = "idle"
    /\ ncalls < callBound
    /\ \E o \in OpOutcomes :
        /\ op' = [op EXCEPT ![t] = o]
        /\ allErr' = (allErr /\ ~IsOk(o))
    /\ invoked' = [invoked EXCEPT ![t] = 0]
    /\ admit' = [admit EXCEPT ![t] = "none"]
    /\ ncalls' = ncalls + 1
    /\ ev' = IF recording THEN ev + 1 ELSE ev
    /\ begun' = IF recording THEN [begun EXCEPT ![t] = ev] ELSE begun
    /\ pc' = [pc EXCEPT ![t] = "mt_state"]
    /\ UNCHANGED <<now, debVars, rlVars, fnVars, cbSeen, cbFields, cbLocks, res, recNow, callers, callBound, recording, hist>>

\* maybe_transition: `let mut state = self.state.lock()`; when the breaker is
\* not Open the guard is dropped at once.
MaybeTransition_LockState(t) ==
    /\ pc[t] = "mt_state"
    /\ stateLock = Free
    /\ IF state = "Open"
       THEN /\ stateLock' = t
            /\ pc' = [pc EXCEPT ![t] = "mt_until"]
            /\ UNCHANGED admit
       ELSE /\ pc' = [pc EXCEPT ![t] = "read"]
            /\ admit' = [admit EXCEPT ![t] = Admission]
            /\ UNCHANGED stateLock
    /\ UNCHANGED <<now, debVars, rlVars, fnVars, cbSeen, cbFields, failuresLock, untilLock, op, invoked, res,
                   recNow, ncalls, allErr, callers, callBound, recording, ev, begun, hist>>

\* maybe_transition: `if let Some(until) = *self.open_until.lock()`, the clock
\* comparison and the assignment, both guards held, then both dropped.
MaybeTransition_Check(t) ==
    /\ pc[t] = "mt_until"
    /\ untilLock = Free
    /\ state' = IF IsSome(open_until) /\ Elapsed(Unwrap(open_until))
                THEN "HalfOpen" ELSE state
    /\ admit' = [admit EXCEPT ![t] = Admission]
    /\ stateLock' = Free
    /\ pc' = [pc EXCEPT ![t] = "read"]
    /\ UNCHANGED <<now, debVars, rlVars, fnVars, cbSeen, failures, threshold, open_until, cooldown, failuresLock,
                   untilLock, op, invoked, res, recNow, ncalls, allErr, callers,
                   callBound, recording, ev, begun, hist>>

\* call: `match self.state()`; Open is rejected without invoking op.
Call_Match(t) ==
    /\ pc[t] = "read"
    /\ stateLock = Free
    /\ IF state = "Open"
       THEN /\ Return(t, ErrOpen)
            /\ recNow' = [recNow EXCEPT ![t] = now]
       ELSE /\ pc' = [pc EXCEPT ![t] = "op"]
            /\ UNCHANGED <<res, ev, hist, recNow>>
    /\ seen' = [seen EXCEPT ![t] = state]
    /\ UNCHANGED <<now, debVars, rlVars, fnVars, streak, cbFields, cbLocks, op, invoked, admit, ncalls, allErr,
                   callers, callBound, recording, begun>>

\* call: `match op()`, outside every lock.
Call_Op(t) ==
    /\ pc[t] = "op"
    /\ invoked' = [invoked EXCEPT ![t] = @ + 1]
    /\ pc' = [pc EXCEPT ![t] = IF IsOk(op[t]) THEN "rs_state" ELSE "rf_failures"]
    /\ streak' = IF IsOk(op[t]) THEN 0 ELSE streak + 1
    /\ UNCHANGED <<now, debVars, rlVars, fnVars, seen, cbFields, cbLocks, op, res, cbObs>>

\* record_success: `let mut state = self.state.lock()`
RecordSuccess_LockState(t) ==
    /\ pc[t] = "rs_state"
    /\ stateLock = Free
    /\ stateLock' = t
    /\ pc' = [pc EXCEPT ![t] = "rs_failures"]
    /\ UNCHANGED <<now, debVars, rlVars, fnVars, cbSeen, cbFields, failuresLock, untilLock, op, invoked, res, cbObs>>

\* record_success: `*self.failures.lock() = 0`, HalfOpen closes, the state
\* guard is dropped and call returns Ok(v).
RecordSuccess_Reset(t) ==
    /\ pc[t] = "rs_failures"
    /\ failuresLock = Free
    /\ failures' = CountReset(failures)
    /\ state' = AfterSuccess(state)
    /\ stateLock' = Free
    /\ recNow' = [recNow EXCEPT ![t] = now]
    /\ Return(t, Ok(op[t][2]))
    /\ UNCHANGED <<now, debVars, rlVars, fnVars, cbSeen, threshold, open_until, cooldown, failuresLock, untilLock,
                   op, invoked, admit, ncalls, allErr, callers, callBound, recording,
                   begun>>

\* record_failure: `let mut f = self.failures.lock(); *f += 1`; below the
\* threshold the guard is dropped and call returns the operation's error.
RecordFailure_Count(t) ==
    /\ pc[t] = "rf_failures"
    /\ failuresLock = Free
    /\ failures' = failures + 1
    /\ IF Trips(failures + 1)
       THEN /\ failuresLock' = t
            /\ pc' = [pc EXCEPT ![t] = "rf_state"]
            /\ UNCHANGED <<res, ev, hist, recNow>>
       ELSE /\ Return(t, ErrOperation(op[t][2]))
            /\ recNow' = [recNow EXCEPT ![t] = now]
            /\ UNCHANGED failuresLock
    /\ UNCHANGED <<now, debVars, rlVars, fnVars, cbSeen, state, threshold, open_until, cooldown, stateLock,
                   untilLock, op, invoked, admit, ncalls, allErr, callers,
                   callBound, recording, begun>>

\* record_failure: `*self.state.lock() = BreakerState::Open` (a temporary
\* guard, dropped at the end of the statement)
RecordFailure_Open(t) ==
    /\ pc[t] = "rf_state"
    /\ stateLock = Free
    /\ state' = "Open"
    /\ pc' = [pc EXCEPT ![t] = "rf_until"]
    /\ UNCHANGED <<now, debVars, rlVars, fnVars, cbSeen, failures, threshold, open_until, cooldown, cbLocks, op,
                   invoked, res, cbObs>>

\* `Some(Instant::now() + self.cooldown)` of record_failure
UntilKept == open_until
UntilSet == Some(now + cooldown)

\* record_failure: `*self.open_until.lock() = Some(Instant::now() + cooldown)`,
\* then the failures guard is dropped and call returns the operation's error.
RecordFailure_SetUntil(t) ==
    /\ pc[t] = "rf_until"
    /\ untilLock = Free
    /\ open_until' = UntilSet
    /\ failuresLock' = Free
    /\ recNow' = [recNow EXCEPT ![t] = now]
    /\ Return(t, ErrOperation(op[t][2]))
    /\ UNCHANGED <<now, debVars, rlVars, fnVars, cbSeen, state, failures, threshold, cooldown, stateLock,
                   untilLock, op, invoked, admit, ncalls, allErr, callers,
                   callBound, recording, begun>>

CallStep(t) ==
    \/ Call_Begin(t)
    \/ MaybeTransition_LockState(t)
    \/ MaybeTransition_Check(t)
    \/ Call_Match(t)
    \/ Call_Op(t)
    \/ RecordSuccess_LockState(t)
    \/ RecordSuccess_Reset(t)
    \/ RecordFailure_Count(t)
    \/ RecordFailure_Open(t)
    \/ RecordFailure_SetUntil(t)

\* -------------------------------------------------------------- Debounced
\* debounce(func, delay)
debounce(d) ==
    /\ delay = d
    /\ deadline = None
    /\ started = FALSE
    /\ shutdown = FALSE
    /\ worker = "None"
    /\ dlLock = Free
    /\ notified = FALSE
    /\ cpc = [c \in Callers |-> "idle"]
    /\ wpc = "unspawned"
    /\ dpc = "alive"
    /\ execs = 0
    /\ dcalls = 0
    /\ bursts = 0
    /\ lastCallAt = None
    /\ spaced = TRUE
    /\ replaced = 0
    /\ mergedBursts = 0
    /\ takenCallAt = None
    /\ execAfterDrop = FALSE
    /\ execAfterJoin = FALSE
    /\ spawned = 0
    /\ unserved = FALSE

\* The worker is blocked in cvar.wait or cvar.wait_timeout.
Waiting == wpc \in {"wait", "twait"}

\* a notification that wakes nobody
NotifyLost == notified

\* cvar.notify_one / cvar.notify_all: wakes the worker if it is waiting, and
\* is lost otherwise.
Notify == IF Waiting THEN TRUE ELSE notified

\* `self.shutdown.store(true, SeqCst)` of drop
ShutdownKept == shutdown
ShutdownStored == TRUE

\* `now >= target` of the worker's deadline wait
DueEarly(target) == now + 1 >= target
Due(target) == now >= target

\* `*dl = None` of the worker, before it runs the function
KeptDeadline == deadline
ClearedDeadline == None

\* `handle.join()` of drop returns once the worker thread has exited
NotJoined == TRUE
Joined == wpc = "exited"

\* A call() at the present clock begins a new burst.
NewBurst == lastCallAt = None \/ now - Unwrap(lastCallAt) >= delay

\* call: the deadline is set to now + delay and the worker is notified, all
\* under the deadline mutex.
Debounced_Call_SetDeadline(c) ==
    /\ c \in dcallers
    /\ cpc[c] = "idle"
    /\ dpc = "alive"
    /\ dcalls < MaxDebCalls
    /\ dlLock = Free
    /\ deadline' = Some(now + delay)
    /\ notified' = Notify
    /\ cpc' = [cpc EXCEPT ![c] = "swap"]
    /\ dcalls' = dcalls + 1
    /\ bursts' = IF NewBurst THEN bursts + 1 ELSE bursts
    /\ spaced' = (spaced /\ (lastCallAt = None \/ now - Unwrap(lastCallAt) > delay))
    /\ replaced' = IF IsSome(deadline) THEN replaced + 1 ELSE replaced
    /\ mergedBursts' = IF IsSome(deadline) /\ NewBurst
                       THEN mergedBursts + 1 ELSE mergedBursts
    /\ lastCallAt' = Some(now)
    /\ unserved' = TRUE
    /\ UNCHANGED <<now, cbVars, rlVars, fnVars, delay, started, shutdown, worker, dlLock, wpc, dpc,
                   execs, takenCallAt, execAfterDrop, execAfterJoin, dcallers, spawned>>

\* `self.started.swap(true, SeqCst)`: the value the flag held, read and set
\* in one atomic step
SwapUnseen(s) == FALSE
Swap(s) == s

\* call: `if !self.started.swap(true)` spawns the worker thread
Debounced_Call_Start(c) ==
    /\ cpc[c] = "swap"
    /\ IF Swap(started)
       THEN /\ cpc' = [cpc EXCEPT ![c] = "idle"]
            /\ UNCHANGED <<started, wpc, spawned>>
       ELSE /\ started' = TRUE
            /\ wpc' = "top"
            /\ spawned' = spawned + 1
            /\ cpc' = [cpc EXCEPT ![c] = "store"]
    /\ UNCHANGED <<now, cbVars, rlVars, fnVars, delay, deadline, shutdown, worker, dlLock,
                   notified, dpc, execs, dcalls, bursts, lastCallAt, spaced, replaced,
                   mergedBursts, takenCallAt, execAfterDrop, execAfterJoin, dcallers,
                   unserved>>

\* call: `*worker_holder.lock() = Some(handle)`
Debounced_Call_StoreHandle(c) ==
    /\ cpc[c] = "store"
    /\ worker' = "Some"
    /\ cpc' = [cpc EXCEPT ![c] = "idle"]
    /\ UNCHANGED <<now, cbVars, rlVars, fnVars, delay, deadline, started, shutdown, dlLock,
                   notified, wpc, dpc, debObs>>

\* The worker holds the deadline mutex at the head of `while dl.is_none() &&
\* !shutdown` (entered from the top of the loop or from cvar.wait): it waits,
\* breaks out of the loop, or goes on to the deadline wait.
WorkerAwaitDeadline ==
    IF deadline = None /\ ~shutdown
    THEN /\ wpc' = "wait"
         /\ notified' = FALSE
         /\ UNCHANGED <<deadline, takenCallAt>>
    ELSE IF deadline = None
    THEN /\ wpc' = "exited"
         /\ UNCHANGED <<deadline, notified, takenCallAt>>
    ELSE IF Due(Unwrap(deadline))
    THEN /\ deadline' = ClearedDeadline
         /\ takenCallAt' = lastCallAt
         /\ wpc' = "exec"
         /\ UNCHANGED notified
    ELSE /\ wpc' = "twait"
         /\ notified' = FALSE
         /\ UNCHANGED <<deadline, takenCallAt>>

\* worker: `let mut dl = lock.lock()` at the top of the loop
Worker_Lock ==
    /\ wpc = "top"
    /\ dlLock = Free
    /\ WorkerAwaitDeadline
    /\ UNCHANGED <<now, cbVars, rlVars, fnVars, delay, started, shutdown, worker, dlLock, cpc, dpc,
                   execs, dcalls, bursts, lastCallAt, spaced, replaced,
                   mergedBursts, execAfterDrop, execAfterJoin, dcallers, spawned, unserved>>

\* worker: cvar.wait returns after a notification
Worker_Wake ==
    /\ wpc = "wait"
    /\ notified
    /\ dlLock = Free
    /\ WorkerAwaitDeadline
    /\ UNCHANGED <<now, cbVars, rlVars, fnVars, delay, started, shutdown, worker, dlLock, cpc, dpc,
                   execs, dcalls, bursts, lastCallAt, spaced, replaced,
                   mergedBursts, execAfterDrop, execAfterJoin, dcallers, spawned, unserved>>

\* The worker holds the mutex after cvar.wait_timeout: the shutdown checks
\* of the deadline wait, the next turn of `while let Some(target)`, and the
\* clearing of the deadline.
WorkerAfterTimedWait ==
    IF deadline = None
    THEN IF shutdown
         THEN /\ wpc' = "exited"
              /\ UNCHANGED <<deadline, notified, takenCallAt>>
         ELSE /\ deadline' = ClearedDeadline
              /\ takenCallAt' = lastCallAt
              /\ wpc' = "exec"
              /\ UNCHANGED notified
    ELSE IF Due(Unwrap(deadline))
    THEN /\ deadline' = ClearedDeadline
         /\ takenCallAt' = lastCallAt
         /\ wpc' = "exec"
         /\ UNCHANGED notified
    ELSE /\ wpc' = "twait"
         /\ notified' = FALSE
         /\ UNCHANGED <<deadline, takenCallAt>>

\* worker: cvar.wait_timeout returns after a notification or the timeout
\* (the wait is for target - now, and the target can only have moved later)
Worker_TimedWake ==
    /\ wpc = "twait"
    /\ notified \/ (IsSome(deadline) /\ now >= Unwrap(deadline))
    /\ dlLock = Free
    /\ WorkerAfterTimedWait
    /\ UNCHANGED <<now, cbVars, rlVars, fnVars, delay, started, shutdown, worker, dlLock, cpc, dpc,
                   execs, dcalls, bursts, lastCallAt, spaced, replaced,
                   mergedBursts, execAfterDrop, execAfterJoin, dcallers, spawned, unserved>>

\* worker: a condition variable may also return with no notification
Worker_SpuriousWake ==
    /\ Waiting
    /\ ~notified
    /\ dlLock = Free
    /\ IF wpc = "wait" THEN WorkerAwaitDeadline ELSE WorkerAfterTimedWait
    /\ UNCHANGED <<now, cbVars, rlVars, fnVars, delay, started, shutdown, worker, dlLock, cpc, dpc,
                   execs, dcalls, bursts, lastCallAt, spaced, replaced,
                   mergedBursts, execAfterDrop, execAfterJoin, dcallers, spawned, unserved>>

\* worker: `let f = func.lock(); (*f)()` begins
Worker_FuncStart ==
    /\ wpc = "exec"
    /\ wpc' = "running"
    /\ execs' = execs + 1
    /\ execAfterDrop' = (execAfterDrop \/ dpc # "alive")
    /\ execAfterJoin' = (execAfterJoin \/ dpc = "done")
    /\ unserved' = FALSE
    /\ UNCHANGED <<now, cbVars, rlVars, fnVars, debFields, cpc, dpc, dcalls, bursts, lastCallAt,
                   spaced, replaced, mergedBursts, takenCallAt, dcallers, spawned>>

\* worker: the function returns and the loop starts over
Worker_FuncEnd ==
    /\ wpc = "running"
    /\ wpc' = "top"
    /\ UNCHANGED <<now, cbVars, rlVars, fnVars, debFields, cpc, dpc, debObs>>

\* drop (or stop): nothing to do if no worker was started, else
\* `self.shutdown.store(true)`. The handle is owned: no call() is in flight.
Drop_Begin ==
    /\ dpc = "alive"
    /\ \A c \in Callers : cpc[c] = "idle"
    /\ IF started
       THEN /\ shutdown' = ShutdownStored
            /\ dpc' = "clear"
       ELSE /\ dpc' = "done"
            /\ UNCHANGED shutdown
    /\ UNCHANGED <<now, cbVars, rlVars, fnVars, delay, deadline, started, worker, dlLock, notified,
                   cpc, wpc, debObs>>

\* drop: `*guard = None; cvar.notify_all()` under the deadline mutex
Drop_Clear ==
    /\ dpc = "clear"
    /\ dlLock = Free
    /\ deadline' = None
    /\ notified' = Notify
    /\ dpc' = "join"
    /\ UNCHANGED <<now, cbVars, rlVars, fnVars, delay, started, shutdown, worker, dlLock, cpc, wpc,
                   debObs>>

\* drop: `if let Some(handle) = self.worker.lock().take() { handle.join() }`
Drop_Join ==
    /\ dpc = "join"
    /\ worker = "Some" => Joined
    /\ worker' = "None"
    /\ dpc' = "done"
    /\ UNCHANGED <<now, cbVars, rlVars, fnVars, delay, deadline, started, shutdown, dlLock,
                   notified, cpc, wpc, debObs>>

\* ------------------------------------------------------------ RateLimiter
\* Observation of an emptied bucket: "empty" from the instant `at` at which a
\* call made in one instant took the last token while no other call was in
\* flight, "burst" once the next call has begun at the instant `start`, for
\* as long as every step of every call happens at that instant.
NoDrain == [phase |-> "none", at |-> 0, start |-> 0, calls |-> 0, trues |-> 0]
Emptied(at) == [phase |-> "empty", at |-> at, start |-> 0, calls |-> 0, trues |-> 0]
InBurst == drain.phase = "burst" /\ now = drain.start
DrainStep == IF drain.phase = "burst" /\ now # drain.start THEN NoDrain ELSE drain

\* RateLimiter::new: the bucket starts full
RateLimiter_new(C, R) ==
    /\ capacity = C
    /\ tokens = C * TicksPerSec
    /\ refill_per_sec = R
    /\ last_refill = now
    /\ tokensLock = Free /\ lastLock = Free
    /\ rpc = [t \in Threads |-> "idle"]
    /\ elapsed = [t \in Threads |-> 0]
    /\ allowed = <<>>
    /\ drain = NoDrain

\* `(*tk + elapsed * refill_per_sec).min(capacity)` of refill
Min(a, b) == IF a <= b THEN a ELSE b
RefilledUnclamped(tk, el) == tk + el * refill_per_sec
Refilled(tk, el) == Min(tk + el * refill_per_sec, capacity * TicksPerSec)

\* `*last = Instant::now()` of refill
StaleInstant(last, n) == last
RefillInstant(last, n) == n

\* `*tk -= 1.0` of allow
TakenAll(tk) == 0
Taken(tk) == tk - TicksPerSec

\* `*tk >= 1.0` of allow
HasTokenAbove(tk) == tk > TicksPerSec
HasAnyToken(tk) == tk > 0
HasToken(tk) == tk >= TicksPerSec

\* allow -> refill: `let mut last = self.last_refill.lock()` and
\* `last.elapsed()`; with no time elapsed refill returns at once.
Refill_LockLast(t) ==
    /\ t \in rcallers
    /\ rpc[t] = "idle"
    /\ Len(allowed) + Cardinality({u \in Threads : rpc[u] # "idle"}) < MaxAllow
    /\ lastLock = Free
    /\ elapsed' = [elapsed EXCEPT ![t] = now - last_refill]
    /\ IF now - last_refill > 0
       THEN /\ lastLock' = t
            /\ rpc' = [rpc EXCEPT ![t] = "refill"]
       ELSE /\ rpc' = [rpc EXCEPT ![t] = "take"]
            /\ UNCHANGED lastLock
    /\ drain' = IF drain.phase = "empty"
                THEN [drain EXCEPT !.phase = "burst", !.start = now]
                ELSE DrainStep
    /\ UNCHANGED <<now, cbVars, debVars, fnVars, capacity, tokens, refill_per_sec,
                   last_refill, tokensLock, allowed, rcallers>>

\* refill: `let mut tk = self.tokens.lock()`, the top-up clamped to capacity
\* and `*last = Instant::now()`, then both guards are dropped.
Refill_TopUp(t) ==
    /\ rpc[t] = "refill"
    /\ tokensLock = Free
    /\ tokens' = Refilled(tokens, elapsed[t])
    /\ last_refill' = RefillInstant(last_refill, now)
    /\ lastLock' = Free
    /\ rpc' = [rpc EXCEPT ![t] = "take"]
    /\ drain' = DrainStep
    /\ UNCHANGED <<now, cbVars, debVars, fnVars, capacity, refill_per_sec, tokensLock,
                   elapsed, allowed, rcallers>>

\* allow: `let mut tk = self.tokens.lock()`; a whole token is consumed and
\* true returned, or nothing changes and false is returned.
Allow_Take(t) ==
    /\ rpc[t] = "take"
    /\ tokensLock = Free
    /\ IF HasToken(tokens)
       THEN /\ tokens' = Taken(tokens)
            /\ allowed' = Append(allowed, TRUE)
       ELSE /\ allowed' = Append(allowed, FALSE)
            /\ UNCHANGED tokens
    /\ rpc' = [rpc EXCEPT ![t] = "idle"]
    /\ drain' = IF InBurst
                THEN [drain EXCEPT !.calls = @ + 1,
                                   !.trues = @ + IF tokens' # tokens THEN 1 ELSE 0]
                ELSE IF /\ tokens' = 0
                        /\ last_refill = now
                        /\ \A u \in Threads \ {t} : rpc[u] = "idle"
                     THEN Emptied(now)
                     ELSE NoDrain
    /\ UNCHANGED <<now, cbVars, debVars, fnVars, capacity, refill_per_sec, last_refill,
                   tokensLock, lastLock, elapsed, rcallers>>

\* -------------------------------------------------------------- Throttled
\* throttle(func, delay): no execution recorded yet
throttle(d) ==
    /\ throttle_delay = d
    /\ last_call = None
    /\ lastCallLock = Free
    /\ tpc = [t \in Threads |-> "idle"]
    /\ made = [t \in Threads |-> 0]
    /\ thist = <<>>
    /\ execAt = <<>>

\* `last_instant.elapsed() >= self.delay`
SinceLastStrict(last_instant) == now - last_instant > throttle_delay
SinceLast(last_instant) == now - last_instant >= throttle_delay

\* the `match *last` of call, under the last_call mutex
ShouldExecute == last_call = None \/ SinceLast(Unwrap(last_call))

\* call: `self.last_call.lock()` and the match. A call that finds the delay
\* not elapsed releases the mutex and returns without executing.
Throttled_Call_Check(t) ==
    /\ t \in tcallers
    /\ tpc[t] = "idle"
    /\ Len(thist) + Cardinality({u \in Threads : tpc[u] # "idle"}) < MaxThrottleCalls
    /\ lastCallLock = Free
    /\ IF ShouldExecute
       THEN /\ lastCallLock' = t
            /\ tpc' = [tpc EXCEPT ![t] = "stamp"]
            /\ made' = [made EXCEPT ![t] = now]
            /\ UNCHANGED thist
       ELSE /\ thist' = Append(thist, [made |-> now, ret |-> now, exec |-> FALSE])
            /\ UNCHANGED <<lastCallLock, tpc, made>>
    /\ UNCHANGED <<now, othTh, throttle_delay, last_call,
                   execAt, tcallers>>

\* call: `*last = Some(Instant::now())`, then the guard is dropped
Throttled_Call_Stamp(t) ==
    /\ tpc[t] = "stamp"
    /\ last_call' = Some(now)
    /\ lastCallLock' = Free
    /\ tpc' = [tpc EXCEPT ![t] = "func"]
    /\ UNCHANGED <<now, othTh, throttle_delay, made, thist,
                   execAt, tcallers>>

\* call: `(self.func)()` on the caller's thread, outside the mutex
Throttled_Call_Func(t) ==
    /\ tpc[t] = "func"
    /\ execAt' = Append(execAt, now)
    /\ thist' = Append(thist, [made |-> made[t], ret |-> now, exec |-> TRUE])
    /\ tpc' = [tpc EXCEPT ![t] = "idle"]
    /\ UNCHANGED <<now, othTh, throttle_delay, last_call,
                   lastCallLock, made, tcallers>>

\* ---------------------------------------------------------------- memoize
\* memoize(func): `HashMap::new()`
memoize ==
    /\ cache = [a \in Args |-> None]
    /\ cacheLock = Free
    /\ mpc = [t \in Threads |-> "idle"]
    /\ marg = [t \in Threads |-> "a1"]
    /\ mval = [t \in Threads |-> "v1"]
    /\ mafter = [t \in Threads |-> FALSE]
    /\ mfound = [t \in Threads |-> None]
    /\ finvoked = [a \in Args |-> 0]
    /\ firstVal = [a \in Args |-> None]
    /\ mhist = <<>>

\* `cache.lock().unwrap().get(&arg).cloned()`
GetNothing(a) == None
Get(a) == cache[a]

\* `cache.lock().unwrap().insert(arg, res.clone())`
InsertNothing(a, v) == cache
Insert(a, v) == [cache EXCEPT ![a] = Some(v)]

\* the arguments for which a call has returned
Returned == {mhist[i].arg : i \in 1..Len(mhist)}

\* g(arg): the lookup under the cache mutex; a hit is returned at once
Memo_Lookup(t) ==
    /\ t \in mcallers
    /\ mpc[t] = "idle"
    /\ Len(mhist) + Cardinality({u \in Threads : mpc[u] # "idle"}) < MaxMemoCalls
    /\ cacheLock = Free
    /\ \E a \in Args :
          IF IsSome(Get(a))
          THEN /\ mhist' = Append(mhist, [arg |-> a, val |-> Unwrap(Get(a)),
                                          computed |-> FALSE,
                                          after |-> a \in Returned,
                                          found |-> cache[a]])
               /\ UNCHANGED <<mpc, marg, mafter, mfound>>
          ELSE /\ mpc' = [mpc EXCEPT ![t] = "func"]
               /\ marg' = [marg EXCEPT ![t] = a]
               /\ mafter' = [mafter EXCEPT ![t] = a \in Returned]
               /\ mfound' = [mfound EXCEPT ![t] = cache[a]]
               /\ UNCHANGED mhist
    /\ UNCHANGED <<now, othMem, cache, cacheLock, mval, finvoked, firstVal, mcallers>>

\* g(arg): `let res = func(arg.clone())`, outside the mutex; func is any Fn
Memo_Func(t) ==
    /\ mpc[t] = "func"
    /\ \E v \in Values : mval' = [mval EXCEPT ![t] = v]
    /\ finvoked' = [finvoked EXCEPT ![marg[t]] = @ + 1]
    /\ mpc' = [mpc EXCEPT ![t] = "insert"]
    /\ UNCHANGED <<now, othMem, cache, cacheLock, marg, mafter, mfound, firstVal,
                   mhist, mcallers>>

\* g(arg): the insert under the cache mutex, then `res` is returned
Memo_Insert(t) ==
    /\ mpc[t] = "insert"
    /\ cacheLock = Free
    /\ cache' = Insert(marg[t], mval[t])
    /\ firstVal' = IF IsSome(firstVal[marg[t]]) THEN firstVal
                   ELSE [firstVal EXCEPT ![marg[t]] = cache'[marg[t]]]
    /\ mhist' = Append(mhist, [arg |-> marg[t], val |-> mval[t], computed |-> TRUE,
                               after |-> mafter[t], found |-> mfound[t]])
    /\ mpc' = [mpc EXCEPT ![t] = "idle"]
    /\ UNCHANGED <<now, othMem, cacheLock, marg, mval, mafter, mfound, finvoked,
                   mcallers>>

\* ------------------------------------------------- retry, retry_with_backoff
\* What op returns on its i-th invocation; the payload tells which one it was.
OpAt(i) == IF i <= fails THEN <<"Err", i>> ELSE <<"Ok", i>>

\* a call of retry or retry_with_backoff with these arguments is about to
\* enter its loop
RetryCall(n, d, b, k) ==
    /\ attempts = n /\ given = n
    /\ retry_delay = d
    /\ base_delay = b /\ cur_delay = b
    /\ fails = k
    /\ tries = 0
    /\ sleeps = <<>>
    /\ outcome = NoResult
    /\ lpc = "op"

\* no subtraction
NotSubtracted(a, b) == a

\* `attempts.saturating_sub(1)`
SaturatingSub(a, b) == IF a >= b THEN a - b ELSE 0

\* `if attempts == 0`
ExhaustedEarly(a) == a <= 1
Exhausted(a) == a = 0

\* `delay.saturating_mul(2)`
NotDoubled(d) == d
Doubled(d) == IF 2 * d <= DurationMax THEN 2 * d ELSE DurationMax

\* the loop body up to the sleep: `match op()`, the count-down and the test
Attempt ==
    /\ lpc = "op"
    /\ tries' = tries + 1
    /\ IF OpAt(tries + 1)[1] = "Ok"
       THEN /\ outcome' = OpAt(tries + 1)
            /\ lpc' = "done"
            /\ UNCHANGED attempts
       ELSE /\ attempts' = SaturatingSub(attempts, 1)
            /\ IF Exhausted(attempts')
               THEN outcome' = OpAt(tries + 1) /\ lpc' = "done"
               ELSE lpc' = "sleep" /\ UNCHANGED outcome
    /\ UNCHANGED <<now, othRet, retry_delay, base_delay, cur_delay, fails,
                   given, sleeps, variant>>

\* retry: one turn of the loop
Retry_Attempt == Attempt

\* retry: `if let Some(d) = delay { thread::sleep(d); }`
Retry_Sleep ==
    /\ lpc = "sleep"
    /\ sleeps' = IF IsSome(retry_delay) THEN Append(sleeps, Unwrap(retry_delay))
                 ELSE sleeps
    /\ lpc' = "op"
    /\ UNCHANGED <<now, othRet, attempts, retry_delay, base_delay, cur_delay,
                   fails, given, tries, outcome, variant>>

\* retry_with_backoff: one turn of the loop
Backoff_Attempt == Attempt

\* retry_with_backoff: `thread::sleep(delay); delay = delay.saturating_mul(2)`
Backoff_Sleep ==
    /\ lpc = "sleep"
    /\ sleeps' = Append(sleeps, cur_delay)
    /\ cur_delay' = Doubled(cur_delay)
    /\ lpc' = "op"
    /\ UNCHANGED <<now, othRet, attempts, retry_delay, base_delay, fails, given,
                   tries, outcome, variant>>

\* ----------------------------------------------------------- with_timeout
\* with_timeout(dur, f) has been called and is about to create the channel
with_timeout(d) ==
    /\ dur = d
    /\ chan = None
    /\ disconnected = FALSE
    /\ hungUp = FALSE
    /\ upc = "spawn"
    /\ wkpc = "unspawned"
    /\ ret = NoResult
    /\ waitFrom = None /\ doneAt = None /\ retAt = None
    /\ tcall = 1 /\ stale = {} /\ chanFrom = 0 /\ gotFrom = 0 /\ lateDone = {}

\* `tx.send(res)` of the thread spawned by call c reaches a receiver: tx and
\* rx are the two ends of the channel that call created, and rx lives until
\* that call returns.
DeliveredToAnyCall(c) == ~hungUp
Delivered(c) == c = tcall /\ ~hungUp

\* `let _ = tx.send(res)` by the thread that call c spawned: the value is
\* queued, or the send fails and the value is dropped
Send(c) ==
    IF Delivered(c)
    THEN /\ \E v \in Values : chan' = Some(v)
         /\ chanFrom' = c
    ELSE UNCHANGED <<chan, chanFrom>>

\* `Instant::now() >= deadline` inside recv_timeout
PastDeadlineAlways == TRUE
PastDeadline == now >= Unwrap(waitFrom) + dur

\* `mpsc::channel()` and `thread::spawn(..)`
WithTimeout_Spawn ==
    /\ upc = "spawn"
    /\ wkpc' = "running"
    /\ upc' = "recv"
    /\ UNCHANGED <<now, othTo, dur, chan, disconnected, hungUp, ret, waitFrom,
                   doneAt, retAt, toCalls>>

\* `rx.recv_timeout(dur)` is entered: the deadline is dur from now
WithTimeout_Wait ==
    /\ upc = "recv"
    /\ waitFrom' = Some(now)
    /\ upc' = "waiting"
    /\ UNCHANGED <<now, othTo, dur, chan, disconnected, hungUp, wkpc, ret,
                   doneAt, retAt, toCalls>>

\* the spawned thread: `let res = f(); let _ = tx.send(res);`. send fails,
\* and the value is dropped, once rx is gone.
Worker_Send ==
    /\ wkpc = "running"
    /\ wkpc' = "done"
    /\ doneAt' = Some(now)
    /\ Send(tcall)
    /\ lateDone' = IF hungUp THEN lateDone \cup {tcall} ELSE lateDone
    /\ UNCHANGED <<now, othTo, dur, disconnected, hungUp, upc, ret, waitFrom,
                   retAt, tcall, stale, gotFrom>>

\* the thread spawned by an earlier call c, still running after that call
\* returned: f completes and `let _ = tx.send(res)` ignores the failed send
StaleWorker_Send(c) ==
    /\ c \in stale
    /\ stale' = stale \ {c}
    /\ lateDone' = lateDone \cup {c}
    /\ Send(c)
    /\ UNCHANGED <<now, othTo, dur, disconnected, hungUp, upc, wkpc, ret,
                   waitFrom, doneAt, retAt, tcall, gotFrom>>

\* the spawned thread: f panics and tx is dropped with nothing sent
Worker_Panic ==
    /\ wkpc = "running"
    /\ wkpc' = "panicked"
    /\ disconnected' = TRUE
    /\ UNCHANGED <<now, othTo, dur, chan, hungUp, upc, ret, waitFrom, doneAt,
                   retAt, toCalls>>

\* recv_timeout returns and `.ok()` is returned, rx being dropped: a value in
\* the channel is taken whenever the caller runs; without one the caller
\* returns None once the sender is gone or the deadline has passed, and
\* stays blocked otherwise.
WithTimeout_Return ==
    /\ upc = "waiting"
    /\ IF IsSome(chan)
       THEN /\ ret' = <<"Some", Unwrap(chan)>> /\ chan' = None
            /\ gotFrom' = chanFrom /\ chanFrom' = 0
       ELSE /\ disconnected \/ PastDeadline
            /\ ret' = <<"None">>
            /\ UNCHANGED <<chan, chanFrom, gotFrom>>
    /\ hungUp' = TRUE
    /\ retAt' = Some(now)
    /\ upc' = "returned"
    /\ UNCHANGED <<now, othTo, dur, disconnected, wkpc, waitFrom, doneAt, tcall,
                   stale, lateDone>>

\* with_timeout is called again after it returned: a new channel; the thread
\* spawned by the call before may still be running f
WithTimeout_Again ==
    /\ upc = "returned"
    /\ tcall < MaxTimeoutCalls
    /\ tcall' = tcall + 1
    /\ stale' = IF wkpc = "running" THEN stale \cup {tcall} ELSE stale
    /\ chan' = None /\ chanFrom' = 0 /\ gotFrom' = 0
    /\ disconnected' = FALSE /\ hungUp' = FALSE
    /\ upc' = "spawn" /\ wkpc' = "unspawned"
    /\ ret' = NoResult
    /\ waitFrom' = None /\ doneAt' = None /\ retAt' = None
    /\ UNCHANGED <<now, othTo, dur, lateDone>>

\* --------------------------------------------------------- specifications
\* the wrappers a specification does not exercise, as constructed
NoCircuitBreaker == callers = {} /\ callBound = 0 /\ recording = FALSE /\ CircuitBreaker_new(1, 0)
NoDebounced == dcallers = {} /\ debounce(0)
NoRateLimiter == rcallers = {} /\ RateLimiter_new(0, 0)
NoThrottled == tcallers = {} /\ throttle(0)
NoMemoize == mcallers = {} /\ memoize
NoRetry ==
    /\ attempts = 0 /\ given = 0 /\ retry_delay = None /\ base_delay = 0
    /\ cur_delay = 0 /\ fails = 0 /\ tries = 0 /\ sleeps = <<>>
    /\ outcome = NoResult /\ lpc = "none" /\ variant = "none"
NoTimeout ==
    /\ dur = 0 /\ chan = None /\ disconnected = FALSE /\ hungUp = FALSE
    /\ upc = "none" /\ wkpc = "unspawned" /\ ret = NoResult
    /\ waitFrom = None /\ doneAt = None /\ retAt = None
    /\ tcall = 0 /\ stale = {} /\ chanFrom = 0 /\ gotFrom = 0 /\ lateDone = {}

\* One thread owns the breaker and calls it.
InitCB1 ==
    /\ now = 0
    /\ callers = {"t1"}
    /\ callBound = MaxCalls
    /\ recording = FALSE
    /\ \E T \in 1..MaxThreshold, cd \in 0..MaxCooldown : CircuitBreaker_new(T, cd)
    /\ dcallers = {}
    /\ debounce(0)
    /\ rcallers = {}
    /\ RateLimiter_new(0, 0)
    /\ NoThrottled /\ NoMemoize /\ NoRetry /\ NoTimeout

NextCB1 ==
    \/ Tick
    \/ \E t \in Threads : CallStep(t)

SpecCB1 == InitCB1 /\ [][NextCB1]_vars

\* Several threads share the breaker.
InitCB ==
    /\ now = 0
    /\ callers = Threads
    /\ callBound = MaxConcCalls
    /\ recording = FALSE
    /\ \E T \in 1..MaxThreshold, cd \in 0..MaxCooldown : CircuitBreaker_new(T, cd)
    /\ dcallers = {}
    /\ debounce(0)
    /\ rcallers = {}
    /\ RateLimiter_new(0, 0)
    /\ NoThrottled /\ NoMemoize /\ NoRetry /\ NoTimeout

NextCB ==
    \/ Tick
    \/ \E t \in Threads : CallStep(t)

SpecCB == InitCB /\ [][NextCB]_vars

\* Several threads share a breaker that opens on the first failure, and
\* make enough calls for two of them to follow one that opened it.
InitCBProbe ==
    /\ now = 0
    /\ callers = Threads
    /\ callBound = MaxProbeCalls
    /\ recording = FALSE
    /\ \E cd \in 0..MaxCooldown : CircuitBreaker_new(1, cd)
    /\ NoDebounced /\ NoRateLimiter /\ NoThrottled /\ NoMemoize /\ NoRetry /\ NoTimeout

SpecCBProbe == InitCBProbe /\ [][NextCB]_vars

\* The same, keeping the history of the completed calls.
InitCBHist ==
    /\ now = 0
    /\ callers = Threads
    /\ callBound = MaxHistCalls
    /\ recording = TRUE
    /\ \E T \in 1..MaxThreshold, cd \in 0..MaxCooldown : CircuitBreaker_new(T, cd)
    /\ dcallers = {}
    /\ debounce(0)
    /\ rcallers = {}
    /\ RateLimiter_new(0, 0)
    /\ NoThrottled /\ NoMemoize /\ NoRetry /\ NoTimeout

NextCBHist ==
    \/ Tick
    \/ \E t \in Threads : CallStep(t)

SpecCBHist == InitCBHist /\ [][NextCBHist]_vars

\* One thread owns the Debounced handle, calls it and drops it.
InitDeb1 ==
    /\ now = 0
    /\ callers = {}
    /\ callBound = 0
    /\ recording = FALSE
    /\ CircuitBreaker_new(1, 0)
    /\ dcallers = {"c1"}
    /\ \E d \in 0..MaxDelay : debounce(d)
    /\ rcallers = {}
    /\ RateLimiter_new(0, 0)
    /\ NoThrottled /\ NoMemoize /\ NoRetry /\ NoTimeout

NextDeb1 ==
    \/ Tick
    \/ \E c \in Callers : Debounced_Call_SetDeadline(c)
    \/ \E c \in Callers : Debounced_Call_Start(c)
    \/ \E c \in Callers : Debounced_Call_StoreHandle(c)
    \/ Worker_Lock
    \/ Worker_Wake
    \/ Worker_TimedWake
    \/ Worker_SpuriousWake
    \/ Worker_FuncStart
    \/ Worker_FuncEnd
    \/ Drop_Begin
    \/ Drop_Clear
    \/ Drop_Join

SpecDeb1 == InitDeb1 /\ [][NextDeb1]_vars

\* Several threads share the handle; it is dropped when none is calling.
InitDeb ==
    /\ now = 0
    /\ callers = {}
    /\ callBound = 0
    /\ recording = FALSE
    /\ CircuitBreaker_new(1, 0)
    /\ dcallers = Callers
    /\ \E d \in 0..MaxDelay : debounce(d)
    /\ rcallers = {}
    /\ RateLimiter_new(0, 0)
    /\ NoThrottled /\ NoMemoize /\ NoRetry /\ NoTimeout

NextDeb ==
    \/ Tick
    \/ \E c \in Callers : Debounced_Call_SetDeadline(c)
    \/ \E c \in Callers : Debounced_Call_Start(c)
    \/ \E c \in Callers : Debounced_Call_StoreHandle(c)
    \/ Worker_Lock
    \/ Worker_Wake
    \/ Worker_TimedWake
    \/ Worker_SpuriousWake
    \/ Worker_FuncStart
    \/ Worker_FuncEnd
    \/ Drop_Begin
    \/ Drop_Clear
    \/ Drop_Join

SpecDeb == InitDeb /\ [][NextDeb]_vars

\* The same handle under a fair scheduler. Every thread that can take its
\* next step eventually takes it: a call() in flight goes on to the swap and
\* the spawn, the worker goes on when it holds or can take the mutex, when
\* it has been notified and when its timed wait has run out, the wrapped
\* function returns, and drop goes on to clear the deadline and to join.
\* The clock advances. Nothing obliges a thread to begin a call() or the
\* drop, and nothing obliges a condition variable to wake spuriously. A
\* call() is begun only while its deadline lies within the clock's range.
Debounced_Call_InTime(c) ==
    /\ now + delay <= MaxTime
    /\ Debounced_Call_SetDeadline(c)

NextDebLive ==
    \/ Tick
    \/ \E c \in Callers : Debounced_Call_InTime(c)
    \/ \E c \in Callers : Debounced_Call_Start(c)
    \/ \E c \in Callers : Debounced_Call_StoreHandle(c)
    \/ Worker_Lock
    \/ Worker_Wake
    \/ Worker_TimedWake
    \/ Worker_SpuriousWake
    \/ Worker_FuncStart
    \/ Worker_FuncEnd
    \/ Drop_Begin
    \/ Drop_Clear
    \/ Drop_Join

FairDeb ==
    /\ WF_vars(Tick)
    /\ \A c \in Callers : WF_vars(Debounced_Call_Start(c))
    /\ \A c \in Callers : WF_vars(Debounced_Call_StoreHandle(c))
    /\ WF_vars(Worker_Lock)
    /\ WF_vars(Worker_Wake)
    /\ WF_vars(Worker_TimedWake)
    /\ WF_vars(Worker_FuncStart)
    /\ WF_vars(Worker_FuncEnd)
    /\ WF_vars(Drop_Clear)
    /\ WF_vars(Drop_Join)

SpecDebLive == InitDeb /\ [][NextDebLive]_vars /\ FairDeb

\* Several threads share a RateLimiter.
InitRL ==
    /\ now = 0
    /\ callers = {}
    /\ callBound = 0
    /\ recording = FALSE
    /\ CircuitBreaker_new(1, 0)
    /\ dcallers = {}
    /\ debounce(0)
    /\ rcallers = Threads
    /\ \E C \in 0..MaxCapacity, R \in 0..MaxRate : RateLimiter_new(C, R)
    /\ NoThrottled /\ NoMemoize /\ NoRetry /\ NoTimeout

NextRL ==
    \/ Tick
    \/ \E t \in Threads : Refill_LockLast(t)
    \/ \E t \in Threads : Refill_TopUp(t)
    \/ \E t \in Threads : Allow_Take(t)

SpecRL == InitRL /\ [][NextRL]_vars

\* One thread calls a Throttled.
InitTh1 ==
    /\ now = 0
    /\ NoCircuitBreaker /\ NoDebounced /\ NoRateLimiter
    /\ tcallers = {"t1"}
    /\ \E d \in 0..MaxThrottleDelay : throttle(d)
    /\ NoMemoize /\ NoRetry /\ NoTimeout

NextTh ==
    \/ Tick
    \/ \E t \in Threads : Throttled_Call_Check(t)
    \/ \E t \in Threads : Throttled_Call_Stamp(t)
    \/ \E t \in Threads : Throttled_Call_Func(t)

SpecTh1 == InitTh1 /\ [][NextTh]_vars

\* Several threads share a Throttled.
InitTh ==
    /\ now = 0
    /\ NoCircuitBreaker /\ NoDebounced /\ NoRateLimiter
    /\ tcallers = Threads
    /\ \E d \in 0..MaxThrottleDelay : throttle(d)
    /\ NoMemoize /\ NoRetry /\ NoTimeout

SpecTh == InitTh /\ [][NextTh]_vars

\* One thread calls a memoized closure.
InitMemo1 ==
    /\ now = 0
    /\ NoCircuitBreaker /\ NoDebounced /\ NoRateLimiter /\ NoThrottled
    /\ mcallers = {"t1"}
    /\ memoize
    /\ NoRetry /\ NoTimeout

NextMemo ==
    \/ \E t \in Threads : Memo_Lookup(t)
    \/ \E t \in Threads : Memo_Func(t)
    \/ \E t \in Threads : Memo_Insert(t)

SpecMemo1 == InitMemo1 /\ [][NextMemo]_vars

\* Several threads share a memoized closure.
InitMemo ==
    /\ now = 0
    /\ NoCircuitBreaker /\ NoDebounced /\ NoRateLimiter /\ NoThrottled
    /\ mcallers = Threads
    /\ memoize
    /\ NoRetry /\ NoTimeout

SpecMemo == InitMemo /\ [][NextMemo]_vars

\* A call of retry, for every choice of its arguments and of op.
InitRetry ==
    /\ now = 0
    /\ NoCircuitBreaker /\ NoDebounced /\ NoRateLimiter /\ NoThrottled /\ NoMemoize
    /\ NoTimeout
    /\ \E n \in 0..MaxAttempts, k \in 0..MaxFails,
         d \in {None} \cup {Some(x) : x \in 0..MaxBaseDelay} :
            RetryCall(n, d, 0, k)
    /\ variant = "retry"

NextRetry ==
    \/ Retry_Attempt
    \/ Retry_Sleep

SpecRetry == InitRetry /\ [][NextRetry]_vars

\* A call of retry_with_backoff, for every choice of its arguments and of op.
InitBackoff ==
    /\ now = 0
    /\ NoCircuitBreaker /\ NoDebounced /\ NoRateLimiter /\ NoThrottled /\ NoMemoize
    /\ NoTimeout
    /\ \E n \in 0..MaxAttempts, k \in 0..MaxFails, b \in 0..MaxBaseDelay :
            RetryCall(n, None, b, k)
    /\ variant = "backoff"

NextBackoff ==
    \/ Backoff_Attempt
    \/ Backoff_Sleep

SpecBackoff == InitBackoff /\ [][NextBackoff]_vars

\* A call of either function, run to its end: the calling thread keeps
\* running, op returns and thread::sleep returns.
InitRetryAny == InitRetry \/ InitBackoff

NextRetryAny ==
    \/ variant = "retry" /\ Retry_Attempt
    \/ variant = "retry" /\ Retry_Sleep
    \/ variant = "backoff" /\ Backoff_Attempt
    \/ variant = "backoff" /\ Backoff_Sleep

SpecRetryAny == InitRetryAny /\ [][NextRetryAny]_vars /\ WF_vars(NextRetryAny)

\* A call of with_timeout, its spawned thread and the clock.
InitTimeout ==
    /\ now = 0
    /\ NoCircuitBreaker /\ NoDebounced /\ NoRateLimiter /\ NoThrottled /\ NoMemoize
    /\ NoRetry
    /\ \E d \in 0..MaxDur : with_timeout(d)

NextTimeout ==
    \/ Tick
    \/ WithTimeout_Spawn
    \/ WithTimeout_Wait
    \/ Worker_Send
    \/ Worker_Panic
    \/ WithTimeout_Return
    \/ WithTimeout_Again
    \/ \E c \in 1..MaxTimeoutCalls : StaleWorker_Send(c)

SpecTimeout == InitTimeout /\ [][NextTimeout]_vars

\* ------------------------------------------------- CircuitBreaker: claims

\* C1: a single caller, threshold T >= 1: after T failing calls from the
\* initial Closed state the stored state is Open, and a call whose
\* maybe_transition reads the clock before open_until returns Err(Open)
\* without invoking op.
C1_OpensAtThresholdAndRejects ==
    /\ (pc["t1"] = "idle" /\ allErr /\ ncalls = threshold) => state = "Open"
    /\ (pc["t1"] = "idle" /\ admit["t1"] = "cooling")
           => (res["t1"] = <<"Err", "Open">> /\ invoked["t1"] = 0)

C1_Witness ==
    /\ pc["t1"] = "idle" /\ threshold = 2 /\ ncalls = 3
    /\ admit["t1"] = "cooling" /\ IsOk(op["t1"]) /\ res["t1"] = <<"Err", "Open">>

\* C2: a single caller: the call that finds the breaker Open with the
\* cooldown elapsed moves it to HalfOpen and invokes op once; a successful
\* probe leaves it Closed with failures = 0, a failed probe leaves it Open
\* with open_until = (clock when the failure was recorded) + cooldown.
C2_ProbeAfterCooldown ==
    admit["t1"] = "elapsed" =>
        /\ pc["t1"] \in {"read", "op", "rs_state", "rs_failures", "rf_failures"}
               => state = "HalfOpen"
        /\ pc["t1"] = "idle" =>
               /\ invoked["t1"] = 1
               /\ IF IsOk(op["t1"])
                  THEN /\ state = "Closed" /\ failures = 0
                       /\ res["t1"] = <<"Ok", op["t1"][2]>>
                  ELSE /\ state = "Open"
                       /\ open_until = Some(recNow["t1"] + cooldown)
                       /\ res["t1"] = <<"Err", "OperationError", op["t1"][2]>>

C2_Witness ==
    /\ admit["t1"] = "elapsed" /\ pc["t1"] = "idle" /\ ~IsOk(op["t1"])
    /\ state = "Open" /\ cooldown = 1 /\ recNow["t1"] = 2 /\ open_until = Some(3)

\* C3 as stated: in every reachable state the stored state is Open only
\* while now < open_until (here only for cooldown > 0 and no call in flight).
C3_OpenOnlyBeforeUntil ==
    ((\A t \in Threads : pc[t] = "idle") /\ cooldown > 0 /\ state = "Open")
        => (IsSome(open_until) /\ now < Unwrap(open_until))

\* C3 as amended: whenever maybe_transition completes inside a call() it
\* leaves the stored state Open only if open_until is unset or the clock it
\* read is before open_until (the move to HalfOpen is lazy: with no call()
\* the stored state stays Open after open_until has passed).
C3_OpenAfterTransitionOnlyBeforeUntil ==
    [][\A t \in Threads :
          (pc[t] \in {"mt_state", "mt_until"} /\ pc'[t] = "read"
              /\ state' = "Open" /\ IsSome(open_until'))
          => now < Unwrap(open_until')]_vars

C3_Witness ==
    \E t \in Threads : pc[t] = "read" /\ admit[t] = "cooling" /\ state = "Open"

\* C4: call() returns Ok(v) exactly when op was invoked and returned Ok(v),
\* Err(OperationError(e)) exactly when op was invoked and returned Err(e),
\* Err(Open) exactly when op was not invoked; op is invoked at most once.
C4_OutcomeNeverSwallowed ==
    \A t \in Threads :
        /\ invoked[t] <= 1
        /\ (pc[t] = "idle" /\ res[t] # <<"none">>) =>
               res[t] = IF invoked[t] = 0 THEN <<"Err", "Open">>
                        ELSE IF IsOk(op[t]) THEN <<"Ok", op[t][2]>>
                        ELSE <<"Err", "OperationError", op[t][2]>>

C4_Witness ==
    /\ pc["t1"] = "idle" /\ res["t1"] = <<"Err", "OperationError", "e2">> /\ invoked["t1"] = 1
    /\ pc["t2"] = "idle" /\ res["t2"] = <<"Err", "Open">> /\ invoked["t2"] = 0

\* The breaker as one sequential call leaves it: the admission check reads
\* the clock at t1, the outcome is recorded at t2.
SeqCall(s, o, t1, t2) ==
    LET st1 == IF s.st = "Open" /\ IsSome(s.ou) /\ t1 >= Unwrap(s.ou)
               THEN "HalfOpen" ELSE s.st
    IN  IF st1 = "Open"
        THEN [s |-> [s EXCEPT !.st = st1], r |-> ErrOpen]
        ELSE IF IsOk(o)
        THEN [s |-> [st |-> IF st1 = "HalfOpen" THEN "Closed" ELSE st1,
                     f |-> 0, ou |-> s.ou],
              r |-> Ok(o[2])]
        ELSE IF s.f + 1 >= threshold
        THEN [s |-> [st |-> "Open", f |-> s.f + 1, ou |-> Some(t2 + cooldown)],
              r |-> ErrOperation(o[2])]
        ELSE [s |-> [st |-> st1, f |-> s.f + 1, ou |-> s.ou],
              r |-> ErrOperation(o[2])]

\* The calls of h run one after the other in the order ord, call ord[k] at
\* any clock readings tm[k] up to the present: the state they leave, or st = "no" if some call's
\* result differs from the one recorded or the clock would run backwards.
RECURSIVE SeqRun(_, _, _, _, _, _)
SeqRun(h, ord, tm, k, s, last) ==
    IF k > Len(ord) THEN s
    ELSE LET c == h[ord[k]]
             o == SeqCall(s, c.op, tm[k][1], tm[k][2])
         IN  IF /\ last <= tm[k][1] /\ tm[k][1] <= tm[k][2]
                /\ o.r = c.res
             THEN SeqRun(h, ord, tm, k + 1, o.s, tm[k][2])
             ELSE [st |-> "no", f |-> 0, ou |-> None]

\* Some order of the recorded calls that keeps every pair of non-overlapping
\* calls in their real-time order explains all results and the final fields.
Linearizable(h) ==
    LET n == Len(h)
        Orders == {f \in [1..n -> 1..n] :
                      /\ \A i, j \in 1..n : i # j => f[i] # f[j]
                      /\ \A i, j \in 1..n :
                            h[f[i]].ret < h[f[j]].inv => i < j}
        Clock == (0..now) \X (0..now)
    IN  \E ord \in Orders : \E tm \in [1..n -> Clock] :
            SeqRun(h, ord, tm, 1, [st |-> "Closed", f |-> 0, ou |-> None], 0)
                = [st |-> state, f |-> failures, ou |-> open_until]

\* C9: with concurrent callers every call result and every combination of
\* (state, failures, open_until) left when no call is in flight is one that
\* some sequential order of the same calls produces (here for cooldown > 0).
C9_LinearHistory ==
    ((\A t \in Threads : pc[t] = "idle") /\ cooldown > 0) => Linearizable(hist)

\* ------------------------------------------------------ Debounced: claims

\* The handle is alive, no call() is in flight, nothing is scheduled and the
\* worker is blocked waiting for a deadline.
Quiescent ==
    /\ dpc = "alive"
    /\ \A c \in Callers : cpc[c] = "idle"
    /\ wpc = "wait"
    /\ deadline = None

\* Executions scheduled and not yet started.
Pending ==
    (IF IsSome(deadline) THEN 1 ELSE 0) + (IF wpc = "exec" THEN 1 ELSE 0)

\* C5 as stated: with the handle kept alive, once everything scheduled has
\* run the function has been executed exactly once per burst (here for
\* delay > 0).
C5_ExactlyOncePerBurst ==
    (Quiescent /\ delay > 0) => execs = bursts

\* C5 as amended: with the handle kept alive the function is executed at
\* most once per burst, an execution starts no earlier than delay after the
\* last call() made before the worker took the deadline, and once everything
\* scheduled has run every burst has had its execution except those whose
\* deadline was still set when the first call() of the next burst replaced it.
C5_AtMostOncePerBurst ==
    dpc = "alive" =>
        /\ execs <= bursts
        /\ Quiescent => execs = bursts - mergedBursts
        /\ wpc \in {"exec", "running"} =>
               (IsSome(takenCallAt) /\ now >= Unwrap(takenCallAt) + delay)

C5_Witness ==
    Quiescent /\ delay = 1 /\ dcalls = 3 /\ bursts = 2 /\ execs = 2

\* C6 as stated: with the handle kept alive and every call() more than delay
\* after the one before, once everything scheduled has run there have been
\* as many executions as calls (here for delay > 0).
C6_EverySpacedCallExecutes ==
    (Quiescent /\ spaced /\ delay > 0) => execs = dcalls

\* C6 as amended: with the handle kept alive and every call() more than
\* delay after the one before, each call() gets its own execution unless the
\* deadline of the call before it is still set when it is made (the worker
\* woke late, or the wrapped function was still running): it then replaces
\* that deadline and the two calls share one execution.
C6_SpacedCallsExecuteUnlessReplaced ==
    (dpc = "alive" /\ spaced) => execs + Pending = dcalls - replaced

C6_Witness ==
    Quiescent /\ spaced /\ delay = 1 /\ dcalls = 2 /\ replaced = 0 /\ execs = 2

\* C7: when drop (or stop) has returned, the worker thread has terminated
\* (or was never spawned), the wrapped function is not running and it is
\* never started afterwards.
C7_WorkerGoneWhenDropReturns ==
    dpc = "done" => (wpc \in {"unspawned", "exited"} /\ ~execAfterJoin)

C7_Witness ==
    dpc = "done" /\ wpc = "exited" /\ execs = 1 /\ dcalls = 2

\* C8: the wrapped function is never started once drop (or stop) has begun:
\* an execution pending at that point is skipped (here for delay > 0).
C8_PendingSkippedOnceDropBegins ==
    delay > 0 => ~execAfterDrop

\* ---------------------------------------------------- RateLimiter: claims

\* C10: RateLimiter::new(C, R) with no time elapsing: of the allow() calls
\* made since construction, the first C return true and every later one
\* (the (C+1)th in particular) returns false.
C10_ExactlyCapacityAllowed ==
    now = 0 => \A i \in 1..Len(allowed) : allowed[i] = (i <= capacity)

C10_Witness ==
    now = 0 /\ capacity = 2 /\ refill_per_sec = 2 /\ allowed = <<TRUE, TRUE, FALSE>>

\* C11: in every state of a RateLimiter shared by several threads, whatever
\* the interleaving of their allow() calls and of the clock, the balance
\* satisfies 0 <= tokens <= capacity.
C11_TokensWithinBucket ==
    0 <= tokens /\ tokens <= capacity * TicksPerSec

\* a refill that would have overshot the bucket has just been clamped
C11_Witness ==
    \E t \in Threads :
        /\ rpc[t] = "take"
        /\ elapsed[t] * refill_per_sec > capacity * TicksPerSec
        /\ tokens = capacity * TicksPerSec
        /\ capacity > 0
        /\ TRUE \in {allowed[i] : i \in 1..Len(allowed)}

\* C12: no token is spent twice: at clock T since construction the allow()
\* calls that returned true are at most capacity + refill_per_sec * T,
\* whatever the interleaving of the callers; with no time elapsed they are
\* at most the capacity the bucket started with.
C12_NoDoubleSpend ==
    Cardinality({i \in 1..Len(allowed) : allowed[i]}) * TicksPerSec
        <= capacity * TicksPerSec + refill_per_sec * now

\* two admissions, one of the initial token and one of a refilled token, with
\* both threads inside allow() at once: the bound is met exactly
C12_Witness ==
    /\ now = 1 /\ capacity = 1 /\ refill_per_sec = 2
    /\ allowed = <<TRUE, TRUE>>
    /\ \E t \in Threads : rpc[t] = "take"

ExecutedBefore(n) == {j \in 1..(n - 1) : thist[j].exec}
Latest(S) == CHOOSE j \in S : \A k \in S : k <= j

\* C14: a single caller of a Throttled with delay D: a call() with no
\* executed call before it (the first one) executes the function; a call()
\* made less than D after the last executed call was made does not execute
\* it; a call() made at least D after the last executed call returned
\* executes it; and the function is started by executing calls only, so a
\* dropped call causes no execution later.
C14_SingleCallerThrottle ==
    /\ \A i \in 1..Len(thist) :
          IF ExecutedBefore(i) = {}
          THEN thist[i].exec
          ELSE LET j == Latest(ExecutedBefore(i))
               IN  /\ thist[i].made - thist[j].made < throttle_delay => ~thist[i].exec
                   /\ thist[i].made - thist[j].ret >= throttle_delay => thist[i].exec
    /\ Len(execAt) = Cardinality({i \in 1..Len(thist) : thist[i].exec})

\* delay 2: a call executes at 0, one at 1 is dropped, one at 2 executes
C14_Witness ==
    /\ throttle_delay = 2
    /\ thist = <<[made |-> 0, ret |-> 0, exec |-> TRUE],
                 [made |-> 1, ret |-> 1, exec |-> FALSE],
                 [made |-> 2, ret |-> 2, exec |-> TRUE]>>
    /\ execAt = <<0, 2>>

\* C15: several threads call one Throttled with delay D: any two starts of
\* the wrapped function are at least D apart (here for D > 0).
C15_ExecutionsSpaced ==
    throttle_delay > 0 =>
        \A i, j \in 1..Len(execAt) :
            i < j => execAt[j] - execAt[i] >= throttle_delay

\* -------------------------------------------------------- memoize: claims
\* the completed calls for the argument of the i-th that returned before it
EarlierSameArg(i) == {j \in 1..(i - 1) : mhist[j].arg = mhist[i].arg}

\* C16: calls of g = memoize(f) made one after another: f is invoked at
\* most once per argument; the first g(a) invokes f(a) and every later g(a)
\* returns the same value without invoking f; and the cache keeps for each
\* argument the first value inserted for it.
C16_AtMostOncePerArgument ==
    /\ \A a \in Args : finvoked[a] <= 1
    /\ \A i \in 1..Len(mhist) :
          /\ mhist[i].computed = (EarlierSameArg(i) = {})
          /\ \A j \in EarlierSameArg(i) : mhist[i].val = mhist[j].val
    /\ \A a \in Args : cache[a] = firstVal[a]

\* g(a1) computed v2, then g(a1) twice more and g(a2) once
C16_Witness ==
    /\ mcallers = {"t1"}
    /\ finvoked = [a \in Args |-> 1]
    /\ cache["a1"] = <<"v2">>
    /\ Len(mhist) = 4
    /\ mhist[1] = [arg |-> "a1", val |-> "v2", computed |-> TRUE,
                   after |-> FALSE, found |-> <<>>]
    /\ mhist[3] = [arg |-> "a1", val |-> "v2", computed |-> FALSE,
                   after |-> TRUE, found |-> <<"v2">>]

\* C17: threads sharing g = memoize(f): a call g(a) that begins after some
\* call g(a) has returned finds a value in the cache and returns it without
\* invoking f, although overlapping first calls may each have invoked f(a).
C17_CachedOnceReturned ==
    \A i \in 1..Len(mhist) :
        mhist[i].after => ~mhist[i].computed /\ mhist[i].found = <<mhist[i].val>>

\* two overlapping first calls both invoked f(a1); a third call, begun after
\* they returned, was served from the cache
C17_Witness ==
    /\ finvoked["a1"] = 2
    /\ Len(mhist) = 3
    /\ mhist[1].computed /\ mhist[2].computed
    /\ ~mhist[1].after /\ ~mhist[2].after
    /\ mhist[1].val # mhist[2].val
    /\ mhist[3] = [arg |-> "a1", val |-> mhist[2].val, computed |-> FALSE,
                   after |-> TRUE, found |-> <<mhist[2].val>>]

\* ------------------------------------- retry, retry_with_backoff: claims

\* C18: retry(N, delay, op) with N >= 1 and an op that fails on its first k
\* invocations: for k < N it returns Ok of the (k+1)-th invocation, the first
\* success, and op has been invoked exactly k+1 times; for k >= N (op fails
\* throughout the call) it returns the error of the N-th invocation and op
\* has been invoked exactly N times.
C18_RetryOutcome ==
    given >= 1 /\ lpc = "done" =>
        IF fails < given
        THEN outcome = <<"Ok", fails + 1>> /\ tries = fails + 1
        ELSE outcome = <<"Err", given>> /\ tries = given

\* retry(3, Some(1), op), op failing twice: Ok of the third invocation
C18_Witness ==
    /\ given = 3 /\ fails = 2 /\ retry_delay = <<1>>
    /\ lpc = "done" /\ outcome = <<"Ok", 3>> /\ tries = 3
    /\ sleeps = <<1, 1>>

RECURSIVE Pow2(_)
Pow2(n) == IF n = 0 THEN 1 ELSE 2 * Pow2(n - 1)

\* C19: retry_with_backoff(N, base_delay, op): the i-th sleep lasts
\* base_delay * 2^(i-1), saturating at Duration::MAX; every failed attempt
\* after which attempts remain is followed by one sleep before the next
\* attempt, and no sleep follows a success or the final attempt.
C19_BackoffSleeps ==
    /\ \A i \in 1..Len(sleeps) :
          sleeps[i] = IF base_delay * Pow2(i - 1) <= DurationMax
                      THEN base_delay * Pow2(i - 1)
                      ELSE DurationMax
    /\ lpc = "op" => Len(sleeps) = tries
    /\ lpc \in {"sleep", "done"} => Len(sleeps) = tries - 1

\* retry_with_backoff(4, 3, op), op failing throughout: sleeps of 3, 6 and
\* the saturated 7, none after the fourth attempt
C19_Witness ==
    /\ given = 4 /\ base_delay = 3 /\ fails >= 4
    /\ lpc = "done" /\ outcome = <<"Err", 4>> /\ tries = 4
    /\ sleeps = <<3, 6, 7>>

\* --------------------------------------------------- with_timeout: claims
\* the instant at which dur has elapsed since the caller began waiting
Deadline == Unwrap(waitFrom) + dur

\* C20: with_timeout(D, op) has returned and op did not panic: it returned
\* Some if op completed strictly before D had elapsed since the call began
\* waiting, None if op took longer than D, and the caller was blocked for at
\* most D (here for D > 0).
C20_SomeBeforeNoneAfter ==
    dur > 0 /\ upc = "returned" /\ wkpc # "panicked" =>
        /\ IsSome(doneAt) /\ Unwrap(doneAt) < Deadline => ret[1] = "Some"
        /\ doneAt = None \/ Unwrap(doneAt) > Deadline => ret = <<"None">>
        /\ Unwrap(retAt) - Unwrap(waitFrom) <= dur

\* C20, as the code has it: with_timeout(D, op) has returned: it returned
\* Some if op completed strictly before D had elapsed since the call began
\* waiting; a Some it returned was sent by op before the return; and, op not
\* having panicked, it returned None no earlier than D after it began
\* waiting and only if op had not completed before D had elapsed.
C20_SomeBeforeNoneOnlyAfter ==
    upc = "returned" =>
        /\ IsSome(doneAt) /\ Unwrap(doneAt) < Deadline => ret[1] = "Some"
        /\ ret[1] = "Some" => IsSome(doneAt) /\ Unwrap(doneAt) <= Unwrap(retAt)
        /\ ret = <<"None">> /\ wkpc # "panicked" =>
              /\ Unwrap(retAt) >= Deadline
              /\ doneAt = None \/ Unwrap(doneAt) >= Deadline

\* D = 2: the caller began waiting at 0, op completed at 1 and the caller
\* returned its value at 1
C20_Witness ==
    /\ dur = 2 /\ upc = "returned"
    /\ waitFrom = <<0>> /\ doneAt = <<1>> /\ retAt = <<1>>
    /\ ret = <<"Some", "v1">>

\* C21: a call of with_timeout that returned None on a timeout leaves its
\* spawned thread running: the thread can always complete f, and when it
\* does its send fails quietly; the late value is in no channel, the call
\* that timed out still has None, and neither the value a later call finds
\* in its channel nor the one it returns was sent by an earlier call's thread.
C21_LateResultDiscarded ==
    /\ upc = "returned" /\ ret = <<"None">> /\ wkpc = "running" => ENABLED Worker_Send
    /\ \A c \in stale : ENABLED StaleWorker_Send(c)
    /\ tcall \in lateDone => ret = <<"None">> /\ chan = <<>>
    /\ chanFrom \in {0, tcall} /\ gotFrom \in {0, tcall}
    /\ chanFrom = 0 <=> chan = <<>>

\* the first call timed out; its thread completed f while the second call was
\* waiting, and the second call then returned the value of its own thread
C21_Witness ==
    /\ dur > 0 /\ tcall = 2 /\ 1 \in lateDone /\ stale = {}
    /\ upc = "returned" /\ ret[1] = "Some" /\ gotFrom = 2
    /\ Unwrap(doneAt) > Unwrap(waitFrom)

\* ------------------------------------------- CircuitBreaker: more claims

\* C22: a single caller of a breaker with threshold T: after a successful
\* call the failure counter is 0, and a failing call that found the breaker
\* Closed leaves it Open if and only if it was the T-th failing invocation
\* since the last successful one (or since construction).
C22_TripsOnThresholdStreak ==
    \A t \in callers :
        pc[t] = "idle" =>
            /\ res[t][1] = "Ok" => failures = 0
            /\ Len(res[t]) = 3 /\ res[t][2] = "OperationError" /\ seen[t] = "Closed" =>
                  (state = "Open" <=> streak = threshold)

\* threshold 2: a failure, a success, then two failures open the breaker
C22_Witness ==
    /\ callers = {"t1"} /\ threshold = 2 /\ ncalls = 4 /\ ~allErr
    /\ pc["t1"] = "idle" /\ seen["t1"] = "Closed"
    /\ res["t1"][1] = "Err" /\ res["t1"][2] = "OperationError"
    /\ streak = 2 /\ state = "Open"

\* ---------------------------------------------- RateLimiter: more claims

\* C23: every step of an allow() call: a step that returns false leaves
\* tokens as they are; a step that returns true takes exactly one token;
\* tokens never go down otherwise; last_refill only moves to the current
\* clock, in a step that does not lower tokens; capacity and the refill rate
\* never change.
C23_AllowFrame ==
    [][ /\ allowed' = Append(allowed, FALSE) => tokens' = tokens
        /\ allowed' = Append(allowed, TRUE) => tokens' = tokens - TicksPerSec
        /\ tokens' < tokens => allowed' = Append(allowed, TRUE)
        /\ last_refill' # last_refill =>
              last_refill' = now /\ tokens' >= tokens /\ allowed' = allowed
        /\ capacity' = capacity /\ refill_per_sec' = refill_per_sec ]_vars

\* an allow() that topped the empty bucket up to half a token and returned
\* false
C23_Witness ==
    /\ capacity = 1 /\ refill_per_sec = 1
    /\ allowed = <<TRUE, FALSE>>
    /\ tokens = 1 /\ last_refill = 1 /\ now = 1
    /\ \A t \in Threads : rpc[t] = "idle"

\* ------------------------------------------------ Debounced: more claims

\* C24: at most one worker thread is ever spawned for a handle, however the
\* calls of several threads interleave: no worker exists before the first
\* call, and once a started call has returned there is exactly one.
C24_OneWorker ==
    /\ spawned <= 1
    /\ spawned = 0 <=> wpc = "unspawned"
    /\ dcalls = 0 => spawned = 0
    /\ (dcalls > 0 /\ \A c \in Callers : cpc[c] = "idle") => spawned = 1

\* two threads have made three calls between them, one of them while the
\* other was between setting the deadline and the swap
C24_Witness ==
    /\ dcallers = Callers
    /\ cpc["c1"] = "swap" /\ cpc["c2"] = "swap"
    /\ dcalls = 3
    /\ spawned = 1
    /\ wpc # "unspawned"


\* C25: dropping the handle terminates: once drop has begun it returns,
\* whatever the worker was doing, and a handle that was never called is
\* dropped in one step, with no lock taken and no thread joined.
C25_DropTerminates ==
    /\ (dpc # "alive") ~> (dpc = "done")
    /\ [][dpc = "alive" /\ dcalls = 0 /\ dpc' # dpc => dpc' = "done"]_vars

\* drop began while the worker was about to run the function, and has
\* returned after the worker ran it and exited
C25_Witness ==
    /\ dpc = "done"
    /\ wpc = "exited"
    /\ shutdown
    /\ execAfterDrop


C26_CallsNeverDeadlock ==
    (\E t \in Threads : pc[t] # "idle") =>
        \E u \in Threads : pc[u] # "idle" /\ ENABLED CallStep(u)


\* C27: a single caller, threshold T >= 1: whenever the failures mutex is
\* not held, Closed goes with failures < T, and Open and HalfOpen go with
\* failures >= T and open_until set.
C27_StateMatchesCounter ==
    failuresLock = Free =>
        /\ state = "Closed" => failures < threshold
        /\ state \in {"Open", "HalfOpen"} =>
              failures >= threshold /\ open_until # <<>>

\* a failed probe has re-opened the breaker: the counter has gone past the
\* threshold
C27_Witness ==
    /\ callers = {"t1"}
    /\ pc["t1"] = "idle"
    /\ admit["t1"] = "elapsed"
    /\ state = "Open"
    /\ failures = threshold + 1
    /\ open_until # <<>>


\* The calls that matched HalfOpen, have invoked op and have not finished
\* recording its outcome.
ProbesInFlight ==
    {t \in Threads :
        /\ seen[t] = "HalfOpen"
        /\ pc[t] \in {"rs_state", "rs_failures", "rf_failures", "rf_state", "rf_until"}}

\* C28: while the breaker is HalfOpen at most one probe is admitted: no
\* second call() invokes its op before the first probe's outcome is
\* recorded.
C28_SingleProbe ==
    Cardinality(ProbesInFlight) <= 1


\* ------------------------------------------- retry / backoff: more claims

\* C30: retry and retry_with_backoff invoke op at least once and return:
\* for an op that fails throughout, op is invoked max(attempts, 1) times
\* and its last error is returned; called with attempts = 0 they invoke op
\* once, return its result and never sleep, as with attempts = 1.
C30_AtLeastOnceAndTerminates ==
    /\ <>(lpc = "done")
    /\ [](lpc = "done" =>
            /\ tries >= 1
            /\ fails >= given /\ given >= 1 =>
                  tries = given /\ outcome = <<"Err", given>>
            /\ given \in {0, 1} =>
                  /\ tries = 1
                  /\ sleeps = <<>>
                  /\ outcome = IF fails >= 1 THEN <<"Err", 1>> ELSE <<"Ok", 1>>)

\* retry_with_backoff(0, 2, op), op failing throughout: one invocation, its
\* error returned, no sleep
C30_Witness ==
    /\ variant = "backoff" /\ given = 0 /\ base_delay = 2 /\ fails = 3
    /\ lpc = "done" /\ tries = 1 /\ outcome = <<"Err", 1>> /\ sleeps = <<>>

====
